---- MODULE Spec2Model ----
(***************************************************************************)
(* State-machine model of the LLM code deployment service:                 *)
(*   app.py            handle_task, notify_evaluation_server               *)
(*   github_manager.py create_and_deploy_repo and its helpers              *)
(*   llm_generator.py  generate_app_code (file-set assembly)               *)
(* Every request thread p walks through the handler one external call or   *)
(* one decision at a time; pc[p] is its position in the code.              *)
(***************************************************************************)
EXTENDS Integers, Sequences, FiniteSets, TLC

VARIABLES
    pc,            \* pc[p]: position of thread p in the code
    req,           \* req[p]: the inbound request being handled
    caller,        \* caller[p]: who called create_and_deploy_repo
    trace,         \* trace[p]: calls made / returned in this request (history)
    files,         \* files[p]: generated_files (name -> content)
    exc,           \* exc[p]: message of the exception in flight, <<>> if none
    response,      \* response[p]: (status code, JSON body) sent to the caller
    pub,           \* pub[p]: arguments of create_and_deploy_repo
    temp_dir,      \* temp_dir[p]: scratch directory of the publication
    workTree,      \* workTree[p]: files on disk in the scratch directory
    staged,        \* staged[p]: the git index of the scratch repository
    localHead,     \* localHead[p]: commit made in the scratch repository
    commit_sha,    \* commit_sha[p]: short identifier read by get_commit_sha
    pubResult,     \* pubResult[p]: (repo_url, commit_sha, pages_url)
    pubTrace,      \* pubTrace[p]: publication steps performed (history)
    localTree,     \* localTree[p]: content of that commit
    origin,        \* origin[p]: URL of the remote "origin", <<>> if unset
    existed,       \* existed[p]: the repository existed at lookup time (history)
    lastStatus,    \* lastStatus[p]: status of the last pages response
    statuses,      \* statuses[p]: every status enable_github_pages received (history)
    pagesReturn,   \* pagesReturn[p]: value returned by enable_github_pages
    payload,       \* payload[p]: JSON sent by the notifier
    attempt,       \* attempt[p]: loop variable of notify_evaluation_server
    outcomes,      \* outcomes[p]: result of every POST of the notifier (history)
    posted,        \* posted[p]: the JSON body of every POST of the notifier (history)
    waits,         \* waits[p]: every time.sleep of the notifier (history)
    notifyResult,  \* notifyResult[p]: value returned by the notifier
    tmpdirs,       \* scratch directories that exist on the host
    gitGlobal,     \* ~/.gitconfig user.name, written by configure_git
    repos,         \* repositories that exist on the hosting service
    remoteHead,    \* remoteHead[t]: commit at refs/heads/main of repository t
    lastPusher,    \* lastPusher[t]: thread whose push set that head, 0 if none (history)
    remoteTree,    \* remoteTree[t]: content of that commit
    pagesOn,       \* pagesOn[t]: static hosting configured for repository t
    nextCommit,    \* source of fresh commit objects
    reqCount,      \* number of requests / direct calls started so far
    GITHUB_TOKEN,  \* module globals of github_manager.py
    GITHUB_USERNAME,
    attachments,   \* the 'attachments' argument of generate_app_code
    generated_code,\* response.text of the model
    processed,     \* processed_attachments
    gen_files,     \* the dict generate_app_code is building
    gen_pc,        \* position in generate_app_code
    att_i,         \* position of the for-loop of process_attachments
    gen_exc,       \* exception that left generate_app_code, <<>> if none
    shape          \* the parts generated_code was put together from (history)

vars == <<pc, req, caller, trace, files, exc, response, pub, temp_dir,
          workTree, staged, localHead, localTree, origin, existed,
          commit_sha, pubResult, pubTrace, lastStatus, statuses, pagesReturn, payload,
          attempt, outcomes, posted, waits, notifyResult, tmpdirs,
          gitGlobal, repos, remoteHead, lastPusher, remoteTree, pagesOn,
          nextCommit, reqCount, GITHUB_TOKEN, GITHUB_USERNAME, attachments,
          generated_code, processed, gen_files, gen_pc, att_i, gen_exc,
          shape>>

(***************************************************************************)
(* Bounds                                                                  *)
(***************************************************************************)
MaxRequests == 2

Procs == {1, 2}
SeqProcs == {1}

None == "None"
Tasks == {"t1", "t2"}
Briefs == {None, "Build a counter app"}
AttNames == {"a.txt", "cache.pyc"}
Responses == {"htmlA", "htmlB"}
Secrets == {"s3cret", "wrong", None}
BodyKinds == {"null", "unparseable", "nonobject", "object"}

MY_SECRET == "s3cret"
TokenValue == "ghp_token"
UserValue == "octo"

EmptyFiles == [n \in {} |-> ""]

\* Python dict assignment d[k] = v
Put(d, k, v) == [n \in DOMAIN d \cup {k} |-> IF n = k THEN v ELSE d[n]]

Last(s) == s[Len(s)]

RECURSIVE Pow2(_)
Pow2(n) == IF n = 0 THEN 1 ELSE 2 * Pow2(n - 1)


(***************************************************************************)
(* Program constants                                                       *)
(***************************************************************************)
max_retries == 4
ShortShaLen == 7
HashLen == ShortShaLen + 1

(***************************************************************************)
(* Inbound requests (spec section 6, read by handle_task with data.get)    *)
(***************************************************************************)
NoRequest ==
    [body |-> "null", secret |-> None, task |-> None, round |-> 0,
     email |-> None, nonce |-> 0, brief |-> None,
     evaluation_url |-> None, attachments |-> {}]

RequestsNumbered(n) ==
    {[body |-> b, secret |-> s, task |-> t, round |-> 1,
      email |-> "student@example.com", nonce |-> n, brief |-> br,
      evaluation_url |-> "https://eval.example/notify", attachments |-> a] :
        b \in {"object"}, s \in Secrets, t \in Tasks, br \in Briefs,
        a \in SUBSET AttNames}
    \cup {[NoRequest EXCEPT !.body = b] : b \in BodyKinds \ {"object"}}

NoCall == [task |-> None, files |-> EmptyFiles, brief |-> None]

NoResponse == [code |-> 0, body |-> [status |-> "none"]]

\* app.py:102  provided_secret != MY_SECRET
SecretOkAlways(provided) == TRUE
SecretOk(provided) == provided = MY_SECRET

\* app.py:185-188  body of the 500 response
ErrorBodyWithUrls(msg) ==
    [status |-> "error", error |-> msg, repo_url |-> <<>>,
     pages_url |-> <<>>, commit_sha |-> <<>>]
ErrorBody(msg) == [status |-> "error", error |-> msg]

\* app.py:173-179  body of the 200 response
SuccessBody(task, result) ==
    [status |-> "success",
     message |-> <<"Task", task, "completed successfully">>,
     repo_url |-> result.repo_url,
     pages_url |-> result.pages_url,
     commit_sha |-> result.commit_sha]

\* app.py:124-131  where handle_task goes after generate_app_code
AfterGenerationAlways(ok) == "publish_call"
AfterGeneration(ok) == IF ok THEN "publish_call" ELSE "task_failed"

\* app.py:136-148  where handle_task goes after create_and_deploy_repo
AfterPublicationAlways(ok) == "notify_call"
AfterPublicationRetry(ok) == IF ok THEN "notify_call" ELSE "publish_call"
AfterPublication(ok) == IF ok THEN "notify_call" ELSE "task_failed"

\* app.py:153-167  where handle_task goes after notify_evaluation_server
AfterNotificationStrict(result) ==
    IF result = "True" THEN "respond_success" ELSE "task_failed"
AfterNotification(result) == "respond_success"

(***************************************************************************)
(* llm_generator.py: assembly of the generated file set                    *)
(***************************************************************************)
\* llm_generator.py:178-185  parse_generated_code, file-set part
ParsedFiles(html, atts) ==
    [n \in {"index.html"} \cup atts |->
        IF n \in atts THEN "attachment" ELSE html]

\* llm_generator.py:51-58  generate_app_code, after the model call
GeneratedFiles(html, atts) ==
    Put(Put(ParsedFiles(html, atts), "LICENSE", "MIT License"),
        "README.md", "# Web Application")

(***************************************************************************)
(* notify_evaluation_server                                                *)
(***************************************************************************)
PostOutcomes ==
    {[raised |-> FALSE, status |-> 200],
     [raised |-> FALSE, status |-> 503],
     [raised |-> TRUE, status |-> 0]}

PostSucceeded(o) == ~o.raised /\ o.status = 200

\* app.py:230  if attempt < max_retries - 1
ShouldWaitAlways(a) == TRUE
ShouldWait(a) == a < max_retries - 1

\* app.py:210  for attempt in range(max_retries): another iteration follows
LoopContinuesOnceMore(a) == a + 1 <= max_retries
LoopContinues(a) == a + 1 < max_retries

\* app.py:231  wait_time = 2 ** attempt
WaitTimeLinear(a) == a + 1
WaitTime(a) == Pow2(a)

\* app.py:198-206
PayloadWithoutNonce(r, result) ==
    [email |-> r.email, task |-> r.task, round |-> r.round,
     nonce |-> 0, repo_url |-> result.repo_url,
     commit_sha |-> result.commit_sha, pages_url |-> result.pages_url]
Payload(r, result) ==
    [email |-> r.email, task |-> r.task, round |-> r.round,
     nonce |-> r.nonce, repo_url |-> result.repo_url,
     commit_sha |-> result.commit_sha, pages_url |-> result.pages_url]

NoResult == [repo_url |-> <<>>, commit_sha |-> <<>>, pages_url |-> <<>>]


(***************************************************************************)
(* github_manager.py helpers                                               *)
(***************************************************************************)
Falsy(x) == x \in {None, ""}

\* github_manager.py:39-44  message of the exception raised, <<>> if none
ValidateInputsNoFileCheck(token, user, fs) ==
    IF Falsy(token) \/ Falsy(user)
    THEN <<"GitHub credentials not configured.">>
    ELSE <<>>
ValidateInputs(token, user, fs) ==
    IF Falsy(token) \/ Falsy(user)
    THEN <<"GitHub credentials not configured.">>
    ELSE IF DOMAIN fs = {}
         THEN <<"No files provided to push to GitHub.">>
         ELSE <<>>

\* github_manager.py:107  finally: the cleanup runs whether or not the body raised
CleanupOnlyOnReturn(raised) == ~raised
CleanupRuns(raised) == TRUE

\* github_manager.py:110  shutil.rmtree(temp_dir, ignore_errors=True)
RemoveTree(dirs, d) == dirs \ {d}

\* github_manager.py:72-80  patterns of the fixed ignore file
GitIgnored(n) == n \in {"cache.pyc"}

\* github_manager.py:81-82
WithGitignore(tree) == Put(tree, ".gitignore", "__pycache__/ *.pyc ...")

\* github_manager.py:87  git add .
StageAll(tree) ==
    [n \in {m \in DOMAIN tree : ~GitIgnored(m)} |-> tree[n]]

\* what a publication commits from a file set (github_manager.py:63-88)
CommittedTree(fs) == StageAll(WithGitignore(fs))

\* the object name git gives commit number c
Sha(c) == [i \in 1..HashLen |-> (c \div Pow2(i - 1)) % 2]

\* github_manager.py:182  sha = output.strip()[:7]
ShortSha(sha) == SubSeq(sha, 1, ShortShaLen)

\* github_manager.py:224
RemoteUrl(token, user, name) ==
    <<"https://", token, "@github.com/", user, "/", name, ".git">>

\* github_manager.py:136-173  outcome of one subprocess.run
GitOutcomes == {"ok", "timeout", "failed"}

\* github_manager.py:161-173  message of the exception run_git_command raises
GitError(outcome, command) ==
    CASE outcome = "timeout" -> <<"Git command timed out:">> \o command
      [] outcome = "failed" -> <<"Git command failed:", "stderr">>
      [] outcome = "nogit" -> <<"Git is not installed.">>
      [] OTHER -> <<>>

\* github_manager.py:207  user.get_repo(repo_name) returns
RepoFound(rs, name) == name \in rs

\* github_manager.py:238  git push -u origin main --force
MergePush(remote, local) ==
    [n \in DOMAIN remote \cup DOMAIN local |->
        IF n \in DOMAIN local THEN local[n] ELSE remote[n]]
ForcePush(remote, local) == local

\* github_manager.py:246  repo.html_url
HtmlUrl(user, name) == <<"https://github.com/", user, "/", name>>

\* github_manager.py:247
PagesUrl(user, name) == <<"https://", user, ".github.io/", name, "/">>

\* github_manager.py:296  response.status_code in [200, 201, 204]
PagesOkCreatedOnly(status) == status = 201
PagesOk(status) == status \in {200, 201, 204}

\* github_manager.py:291  response.status_code == 409
NeedsUpdate(status) == status = 409

\* what the hosting service answers to the POST and to the PUT of the pages
\* configuration (github_manager.py:286 and 293)
PostStatuses(on) == IF on THEN {409, 500} ELSE {201, 500}
PutStatuses == {200, 204, 500}

\* github_manager.py:241-253  create_github_repo after enable_github_pages:
\* the returned value is not looked at
AfterPagesStrict(result) == IF result = "True" THEN "pub_result" ELSE "pub_finally"
AfterPages(result) == "pub_result"


(***************************************************************************)
(* Initial state: the process has started, nothing is in flight, the       *)
(* hosting account holds no repository of the task names used here.        *)
(***************************************************************************)
InitCommon ==
    /\ pc = [p \in Procs |-> "idle"]
    /\ req = [p \in Procs |-> NoRequest]
    /\ caller = [p \in Procs |-> None]
    /\ trace = [p \in Procs |-> <<>>]
    /\ files = [p \in Procs |-> EmptyFiles]
    /\ exc = [p \in Procs |-> <<>>]
    /\ response = [p \in Procs |-> NoResponse]
    /\ pub = [p \in Procs |-> NoCall]
    /\ temp_dir = [p \in Procs |-> 0]
    /\ workTree = [p \in Procs |-> EmptyFiles]
    /\ staged = [p \in Procs |-> EmptyFiles]
    /\ localHead = [p \in Procs |-> 0]
    /\ localTree = [p \in Procs |-> EmptyFiles]
    /\ origin = [p \in Procs |-> <<>>]
    /\ existed = [p \in Procs |-> FALSE]
    /\ commit_sha = [p \in Procs |-> <<>>]
    /\ pubResult = [p \in Procs |-> NoResult]
    /\ pubTrace = [p \in Procs |-> <<>>]
    /\ lastStatus = [p \in Procs |-> 0]
    /\ statuses = [p \in Procs |-> <<>>]
    /\ pagesReturn = [p \in Procs |-> None]
    /\ payload = [p \in Procs |-> Payload(NoRequest, NoResult)]
    /\ attempt = [p \in Procs |-> 0]
    /\ outcomes = [p \in Procs |-> <<>>]
    /\ posted = [p \in Procs |-> <<>>]
    /\ waits = [p \in Procs |-> <<>>]
    /\ notifyResult = [p \in Procs |-> None]
    /\ tmpdirs = {}
    /\ gitGlobal = None
    /\ repos = {}
    /\ remoteHead = [t \in Tasks |-> 0]
    /\ lastPusher = [t \in Tasks |-> 0]
    /\ remoteTree = [t \in Tasks |-> EmptyFiles]
    /\ pagesOn = [t \in Tasks |-> FALSE]
    /\ nextCommit = 1
    /\ reqCount = 0

\* generate_app_code is not running
GenIdle ==
    /\ attachments = <<>>
    /\ generated_code = <<>>
    /\ processed = EmptyFiles
    /\ gen_files = EmptyFiles
    /\ gen_pc = "idle"
    /\ att_i = 1
    /\ gen_exc = <<>>
    /\ shape = <<>>

\* app.py:37-45  the web process only starts with every variable configured
Init ==
    /\ InitCommon
    /\ GenIdle
    /\ GITHUB_TOKEN = TokenValue
    /\ GITHUB_USERNAME = UserValue

\* github_manager.py:18-19  the module alone reads whatever the environment holds
InitPub ==
    /\ InitCommon
    /\ GenIdle
    /\ GITHUB_TOKEN \in {None, "", TokenValue}
    /\ GITHUB_USERNAME \in {None, "", UserValue}

envVars == <<GITHUB_TOKEN, GITHUB_USERNAME>>
genVars == <<attachments, generated_code, processed, gen_files, gen_pc,
             att_i, gen_exc, shape>>
hostVars == <<tmpdirs, gitGlobal>>
hubVars == <<repos, remoteHead, lastPusher, remoteTree, pagesOn, nextCommit>>
gitVars == <<temp_dir, workTree, staged, localHead, localTree, origin,
             existed, commit_sha, pubResult, pubTrace, lastStatus, statuses, pagesReturn>>
notifyVars == <<payload, attempt, outcomes, posted, waits, notifyResult>>
taskVars == <<req, caller, trace, files, response, pub>>

\* the locals of create_and_deploy_repo and its helpers once the call is over
FrameGone(p) ==
    /\ temp_dir' = [temp_dir EXCEPT ![p] = 0]
    /\ workTree' = [workTree EXCEPT ![p] = EmptyFiles]
    /\ staged' = [staged EXCEPT ![p] = EmptyFiles]
    /\ localHead' = [localHead EXCEPT ![p] = 0]
    /\ localTree' = [localTree EXCEPT ![p] = EmptyFiles]
    /\ origin' = [origin EXCEPT ![p] = <<>>]
    /\ existed' = [existed EXCEPT ![p] = FALSE]
    /\ commit_sha' = [commit_sha EXCEPT ![p] = <<>>]
    /\ pubTrace' = [pubTrace EXCEPT ![p] = <<>>]
    /\ lastStatus' = [lastStatus EXCEPT ![p] = 0]
    /\ statuses' = [statuses EXCEPT ![p] = <<>>]
    /\ pagesReturn' = [pagesReturn EXCEPT ![p] = None]

\* the locals of one notify_evaluation_server call before it starts
FreshNotifier(p) ==
    /\ payload' = [payload EXCEPT ![p] = Payload(NoRequest, NoResult)]
    /\ attempt' = [attempt EXCEPT ![p] = 0]
    /\ outcomes' = [outcomes EXCEPT ![p] = <<>>]
    /\ posted' = [posted EXCEPT ![p] = <<>>]
    /\ waits' = [waits EXCEPT ![p] = <<>>]
    /\ notifyResult' = [notifyResult EXCEPT ![p] = None]

\* a request arrives at POST /api-endpoint
Receive(p) ==
    /\ pc[p] = "idle"
    /\ reqCount < MaxRequests
    /\ \E r \in RequestsNumbered(reqCount + 1) :
          req' = [req EXCEPT ![p] = r]
    /\ reqCount' = reqCount + 1
    /\ caller' = [caller EXCEPT ![p] = "handle_task"]
    /\ pc' = [pc EXCEPT ![p] = "parse_body"]
    /\ UNCHANGED <<trace, files, exc, response, pub, temp_dir, workTree,
                   staged, localHead, localTree, origin, existed, commit_sha,
                   pubResult, pubTrace, lastStatus, statuses, pagesReturn, payload,
                   attempt, outcomes, posted, waits, notifyResult, tmpdirs,
                   gitGlobal, repos, remoteHead, lastPusher, remoteTree, pagesOn,
                   nextCommit, GITHUB_TOKEN, GITHUB_USERNAME, genVars>>

\* app.py:89-98  request.get_json(); a JSON value without .get raises inside the try
ParseBody(p) ==
    /\ pc[p] = "parse_body"
    /\ IF req[p].body = "object"
       THEN /\ pc' = [pc EXCEPT ![p] = "check_secret"]
            /\ UNCHANGED response
       ELSE /\ pc' = [pc EXCEPT ![p] = "responded"]
            /\ response' = [response EXCEPT ![p] =
                 [code |-> 400,
                  body |-> [error |-> IF req[p].body = "null"
                                      THEN <<"No JSON data provided">>
                                      ELSE <<"Invalid JSON">>]]]
    /\ UNCHANGED <<req, caller, trace, files, exc, pub, gitVars, notifyVars,
                   hostVars, hubVars, envVars, genVars, reqCount>>

\* app.py:100-109
CheckSecret(p) ==
    /\ pc[p] = "check_secret"
    /\ IF SecretOk(req[p].secret)
       THEN /\ pc' = [pc EXCEPT ![p] = "extract"]
            /\ UNCHANGED response
       ELSE /\ pc' = [pc EXCEPT ![p] = "responded"]
            /\ response' = [response EXCEPT ![p] =
                 [code |-> 403, body |-> [error |-> <<"Invalid secret">>]]]
    /\ UNCHANGED <<req, caller, trace, files, exc, pub, gitVars, notifyVars,
                   hostVars, hubVars, envVars, genVars, reqCount>>

\* app.py:111-122  brief[:100] raises TypeError when 'brief' is absent
ExtractData(p) ==
    /\ pc[p] = "extract"
    /\ IF req[p].brief = None
       THEN /\ exc' = [exc EXCEPT ![p] =
                 <<"'NoneType' object is not subscriptable">>]
            /\ pc' = [pc EXCEPT ![p] = "task_failed"]
       ELSE /\ pc' = [pc EXCEPT ![p] = "generate"]
            /\ UNCHANGED exc
    /\ UNCHANGED <<taskVars, gitVars, notifyVars, hostVars, hubVars, envVars,
                   genVars, reqCount>>

\* app.py:124-130 with llm_generator.py:15-62: the model call raises or
\* answers, and the answer is turned into the file set
Generate(p) ==
    /\ pc[p] = "generate"
    /\ \/ \E html \in Responses :
            /\ files' = [files EXCEPT ![p] =
                  GeneratedFiles(html, req[p].attachments)]
            /\ trace' = [trace EXCEPT ![p] =
                  @ \o <<"generate_call", "generate_ok">>]
            /\ pc' = [pc EXCEPT ![p] = AfterGeneration(TRUE)]
            /\ UNCHANGED exc
       \/ /\ exc' = [exc EXCEPT ![p] =
                <<"Code generation failed:", "model call failed">>]
          /\ trace' = [trace EXCEPT ![p] =
                @ \o <<"generate_call", "generate_raise">>]
          /\ pc' = [pc EXCEPT ![p] = AfterGeneration(FALSE)]
          /\ UNCHANGED files
    /\ UNCHANGED <<req, caller, response, pub, gitVars, notifyVars, hostVars,
                   hubVars, envVars, genVars, reqCount>>

\* app.py:136-141  the call of create_and_deploy_repo
PublishCall(p) ==
    /\ pc[p] = "publish_call"
    /\ pub' = [pub EXCEPT ![p] =
          [task |-> req[p].task, files |-> files[p], brief |-> req[p].brief]]
    /\ trace' = [trace EXCEPT ![p] = Append(@, "publish_call")]
    /\ pc' = [pc EXCEPT ![p] = "pub_validate"]
    /\ UNCHANGED <<req, caller, files, response, exc, gitVars, notifyVars,
                   hostVars, hubVars, envVars, genVars, reqCount>>

\* app.py:142-148  create_and_deploy_repo returned or raised; its frame is
\* gone, handle_task keeps the returned tuple
PublishReturn(p) ==
    /\ pc[p] = "pub_done"
    /\ caller[p] = "handle_task"
    /\ IF exc[p] = <<>>
       THEN /\ trace' = [trace EXCEPT ![p] = Append(@, "publish_ok")]
            /\ UNCHANGED exc
       ELSE /\ trace' = [trace EXCEPT ![p] = Append(@, "publish_raise")]
            /\ exc' = [exc EXCEPT ![p] = <<"GitHub deployment failed:">> \o @]
    /\ pc' = [pc EXCEPT ![p] = AfterPublication(exc[p] = <<>>)]
    /\ FrameGone(p)
    /\ UNCHANGED <<req, caller, files, response, pub, pubResult, payload,
                   attempt, outcomes, posted, waits, notifyResult, tmpdirs,
                   gitGlobal, repos, remoteHead, lastPusher, remoteTree, pagesOn,
                   nextCommit, reqCount, GITHUB_TOKEN, GITHUB_USERNAME, genVars>>

\* app.py:149-163 and 198-210  the call of notify_evaluation_server:
\* the payload is built once, the loop starts at attempt 0
NotifyCall(p) ==
    /\ pc[p] = "notify_call"
    /\ payload' = [payload EXCEPT ![p] = Payload(req[p], pubResult[p])]
    /\ attempt' = [attempt EXCEPT ![p] = 0]
    /\ trace' = [trace EXCEPT ![p] = Append(@, "notify_call")]
    /\ pc' = [pc EXCEPT ![p] = "notify_post"]
    /\ UNCHANGED <<req, caller, files, response, pub, exc, gitVars, outcomes, posted,
                   waits, notifyResult, hostVars, hubVars, envVars, genVars, reqCount>>

\* app.py:211-227  one requests.post; a 200 returns True at once
NotifyPost(p) ==
    /\ pc[p] = "notify_post"
    /\ \E o \in PostOutcomes :
          /\ outcomes' = [outcomes EXCEPT ![p] = Append(@, o)]
          /\ posted' = [posted EXCEPT ![p] = Append(@, payload[p])]
          /\ IF PostSucceeded(o)
             THEN /\ notifyResult' = [notifyResult EXCEPT ![p] = "True"]
                  /\ pc' = [pc EXCEPT ![p] = "notify_returned"]
             ELSE /\ pc' = [pc EXCEPT ![p] = "notify_backoff"]
                  /\ UNCHANGED notifyResult
    /\ UNCHANGED <<taskVars, exc, gitVars, payload, attempt, waits, hostVars,
                   hubVars, envVars, genVars, reqCount>>

\* app.py:229-236  the sleep before the next attempt, the next iteration of
\* the loop, and the return False once the range is exhausted
NotifyBackoff(p) ==
    /\ pc[p] = "notify_backoff"
    /\ waits' = [waits EXCEPT ![p] =
          IF ShouldWait(attempt[p]) THEN Append(@, WaitTime(attempt[p])) ELSE @]
    /\ attempt' = [attempt EXCEPT ![p] = @ + 1]
    /\ IF LoopContinues(attempt[p])
       THEN /\ pc' = [pc EXCEPT ![p] = "notify_post"]
            /\ UNCHANGED notifyResult
       ELSE /\ pc' = [pc EXCEPT ![p] = "notify_returned"]
            /\ notifyResult' = [notifyResult EXCEPT ![p] = "False"]
    /\ UNCHANGED <<taskVars, exc, gitVars, payload, outcomes, posted, hostVars,
                   hubVars, envVars, genVars, reqCount>>

\* app.py:153-167  back in handle_task: the returned value is not looked at
NotifyReturn(p) ==
    /\ pc[p] = "notify_returned"
    /\ trace' = [trace EXCEPT ![p] = Append(@, "notify_returned")]
    /\ pc' = [pc EXCEPT ![p] = AfterNotification(notifyResult[p])]
    /\ UNCHANGED <<req, caller, files, response, pub, exc, gitVars, notifyVars,
                   hostVars, hubVars, envVars, genVars, reqCount>>

\* app.py:169-179
RespondSuccess(p) ==
    /\ pc[p] = "respond_success"
    /\ response' = [response EXCEPT ![p] =
          [code |-> 200, body |-> SuccessBody(req[p].task, pubResult[p])]]
    /\ pc' = [pc EXCEPT ![p] = "responded"]
    /\ UNCHANGED <<req, caller, trace, files, pub, exc, gitVars, notifyVars,
                   hostVars, hubVars, envVars, genVars, reqCount>>

\* app.py:181-188
RespondError(p) ==
    /\ pc[p] = "task_failed"
    /\ response' = [response EXCEPT ![p] =
          [code |-> 500, body |-> ErrorBody(exc[p])]]
    /\ pc' = [pc EXCEPT ![p] = "responded"]
    /\ UNCHANGED <<req, caller, trace, files, pub, exc, gitVars, notifyVars,
                   hostVars, hubVars, envVars, genVars, reqCount>>

\* the response has been sent and the request context is torn down; the
\* thread serves the next request
Finish(p) ==
    /\ pc[p] = "responded"
    /\ pc' = [pc EXCEPT ![p] = "idle"]
    /\ req' = [req EXCEPT ![p] = NoRequest]
    /\ caller' = [caller EXCEPT ![p] = None]
    /\ trace' = [trace EXCEPT ![p] = <<>>]
    /\ files' = [files EXCEPT ![p] = EmptyFiles]
    /\ exc' = [exc EXCEPT ![p] = <<>>]
    /\ response' = [response EXCEPT ![p] = NoResponse]
    /\ pub' = [pub EXCEPT ![p] = NoCall]
    /\ pubResult' = [pubResult EXCEPT ![p] = NoResult]
    /\ FreshNotifier(p)
    /\ UNCHANGED <<temp_dir, workTree, staged, localHead, localTree, origin,
                   existed, commit_sha, pubTrace, lastStatus, statuses, pagesReturn,
                   tmpdirs, gitGlobal, repos, remoteHead, lastPusher,
                   remoteTree, pagesOn, nextCommit, reqCount, GITHUB_TOKEN,
                   GITHUB_USERNAME, genVars>>

(***************************************************************************)
(* create_and_deploy_repo (github_manager.py:24-110) and its helpers       *)
(***************************************************************************)
Goto(p, label) == pc' = [pc EXCEPT ![p] = label]

\* an exception inside the try block: except logs and re-raises, finally runs
RaiseInTrySwallowed(p, msg) ==
    /\ exc' = [exc EXCEPT ![p] = <<>>]
    /\ pc' = [pc EXCEPT ![p] = "pub_result"]
RaiseInTry(p, msg) ==
    /\ exc' = [exc EXCEPT ![p] = msg]
    /\ pc' = [pc EXCEPT ![p] = "pub_finally"]

Step(p, name) == pubTrace' = [pubTrace EXCEPT ![p] = Append(@, name)]

\* tempfile.mkdtemp() returns a name that is not in use
FreshDirFixed ==
    CHOOSE d \in 1..(Cardinality(Procs) + Cardinality(tmpdirs) + 1) : TRUE
FreshDir ==
    CHOOSE d \in 1..(Cardinality(Procs) + Cardinality(tmpdirs) + 1) :
        d \notin tmpdirs \cup {temp_dir[q] : q \in Procs}

Cmd(args) == <<"git">> \o args

RemoteOf(p) == RemoteUrl(GITHUB_TOKEN, GITHUB_USERNAME, pub[p].task)

\* github_manager.py:39-44  a failed validation raises before the try block
PubValidate(p) ==
    /\ pc[p] = "pub_validate"
    /\ LET msg == ValidateInputs(GITHUB_TOKEN, GITHUB_USERNAME, pub[p].files)
       IN  IF msg = <<>>
           THEN /\ Goto(p, "pub_mkdtemp")
                /\ UNCHANGED exc
           ELSE /\ exc' = [exc EXCEPT ![p] = msg]
                /\ Goto(p, "pub_done")
    /\ UNCHANGED <<req, caller, trace, files, response, pub, temp_dir,
                   workTree, staged, localHead, localTree, origin, existed,
                   commit_sha, pubResult, pubTrace, lastStatus, statuses, pagesReturn,
                   payload, attempt, outcomes, posted, waits, notifyResult, tmpdirs,
                   gitGlobal, repos, remoteHead, lastPusher, remoteTree,
                   pagesOn, nextCommit, reqCount, GITHUB_TOKEN,
                   GITHUB_USERNAME, genVars>>

\* github_manager.py:46-48  tempfile.mkdtemp()
PubMkdtemp(p) ==
    /\ pc[p] = "pub_mkdtemp"
    /\ temp_dir' = [temp_dir EXCEPT ![p] = FreshDir]
    /\ tmpdirs' = tmpdirs \cup {FreshDir}
    /\ Step(p, "mkdtemp")
    /\ Goto(p, "configure_git")
    /\ UNCHANGED <<req, caller, trace, files, exc, response, pub, workTree,
                   staged, localHead, localTree, origin, existed, commit_sha,
                   pubResult, lastStatus, statuses, pagesReturn, payload, attempt,
                   outcomes, posted, waits, notifyResult, gitGlobal, repos,
                   remoteHead, lastPusher, remoteTree, pagesOn, nextCommit, reqCount,
                   GITHUB_TOKEN, GITHUB_USERNAME, genVars>>

\* github_manager.py:53 and 113-133  git config --global; a failure is swallowed
ConfigureGit(p) ==
    /\ pc[p] = "configure_git"
    /\ Step(p, "configure_git")
    /\ gitGlobal' \in {gitGlobal, GITHUB_USERNAME}
    /\ Goto(p, "git_init")
    /\ UNCHANGED <<req, caller, trace, files, exc, response, pub, temp_dir,
                   workTree, staged, localHead, localTree, origin, existed,
                   commit_sha, pubResult, lastStatus, statuses, pagesReturn,
                   payload, attempt, outcomes, posted, waits, notifyResult, tmpdirs,
                   repos, remoteHead, lastPusher, remoteTree, pagesOn,
                   nextCommit, reqCount, GITHUB_TOKEN, GITHUB_USERNAME, genVars>>

\* github_manager.py:57  git init
GitInit(p) ==
    /\ pc[p] = "git_init"
    /\ Step(p, "init")
    /\ \E o \in GitOutcomes \cup {"nogit"} :
          IF o = "ok"
          THEN Goto(p, "git_config_name") /\ UNCHANGED exc
          ELSE RaiseInTry(p, GitError(o, Cmd(<<"init">>)))
    /\ UNCHANGED <<req, caller, trace, files, response, pub, temp_dir,
                   workTree, staged, localHead, localTree, origin, existed,
                   commit_sha, pubResult, lastStatus, statuses, pagesReturn, payload,
                   attempt, outcomes, posted, waits, notifyResult, tmpdirs,
                   gitGlobal, repos, remoteHead, lastPusher, remoteTree, pagesOn,
                   nextCommit, reqCount, GITHUB_TOKEN, GITHUB_USERNAME, genVars>>

\* github_manager.py:58-59  git config user.name / user.email
GitConfig(p) ==
    /\ pc[p] \in {"git_config_name", "git_config_email"}
    /\ Step(p, "config")
    /\ \E o \in GitOutcomes :
          IF o = "ok"
          THEN /\ Goto(p, IF pc[p] = "git_config_name"
                          THEN "git_config_email" ELSE "write_files")
               /\ UNCHANGED exc
          ELSE RaiseInTry(p, GitError(o, Cmd(
                  IF pc[p] = "git_config_name"
                  THEN <<"config", "user.name", GITHUB_USERNAME>>
                  ELSE <<"config", "user.email", GITHUB_USERNAME,
                         "@example.com">>)))
    /\ UNCHANGED <<req, caller, trace, files, response, pub, temp_dir,
                   workTree, staged, localHead, localTree, origin, existed,
                   commit_sha, pubResult, lastStatus, statuses, pagesReturn,
                   payload, attempt, outcomes, posted, waits, notifyResult, tmpdirs,
                   gitGlobal, repos, remoteHead, lastPusher, remoteTree,
                   pagesOn, nextCommit, reqCount, GITHUB_TOKEN,
                   GITHUB_USERNAME, genVars>>

\* github_manager.py:61-83  every entry of the file set, then .gitignore
WriteFiles(p) ==
    /\ pc[p] = "write_files"
    /\ Step(p, "write_files")
    /\ \/ /\ workTree' = [workTree EXCEPT ![p] = WithGitignore(pub[p].files)]
          /\ Goto(p, "git_add")
          /\ UNCHANGED exc
       \/ /\ RaiseInTry(p, <<"[Errno 28] No space left on device">>)
          /\ UNCHANGED workTree
    /\ UNCHANGED <<req, caller, trace, files, response, pub, temp_dir,
                   staged, localHead, localTree, origin, existed, commit_sha,
                   pubResult, lastStatus, statuses, pagesReturn, payload, attempt,
                   outcomes, posted, waits, notifyResult, tmpdirs,
                   gitGlobal, repos, remoteHead, lastPusher, remoteTree, pagesOn,
                   nextCommit, reqCount, GITHUB_TOKEN, GITHUB_USERNAME, genVars>>

\* github_manager.py:87  git add .
GitAdd(p) ==
    /\ pc[p] = "git_add"
    /\ Step(p, "add")
    /\ \E o \in GitOutcomes :
          IF o = "ok"
          THEN /\ staged' = [staged EXCEPT ![p] = StageAll(workTree[p])]
               /\ Goto(p, "git_commit")
               /\ UNCHANGED exc
          ELSE /\ RaiseInTry(p, GitError(o, Cmd(<<"add", ".">>)))
               /\ UNCHANGED staged
    /\ UNCHANGED <<req, caller, trace, files, response, pub, temp_dir,
                   workTree, localHead, localTree, origin, existed,
                   commit_sha, pubResult, lastStatus, statuses, pagesReturn,
                   payload, attempt, outcomes, posted, waits, notifyResult, tmpdirs,
                   gitGlobal, repos, remoteHead, lastPusher, remoteTree,
                   pagesOn, nextCommit, reqCount, GITHUB_TOKEN,
                   GITHUB_USERNAME, genVars>>

\* github_manager.py:88  git commit -m 'Initial commit: ' + brief[:50];
\* slicing an absent brief raises before git runs
GitCommit(p) ==
    /\ pc[p] = "git_commit"
    /\ Step(p, "commit")
    /\ IF pub[p].brief = None
       THEN /\ RaiseInTry(p, <<"'NoneType' object is not subscriptable">>)
            /\ UNCHANGED <<localHead, localTree, nextCommit>>
       ELSE \E o \in GitOutcomes :
          IF o = "ok"
          THEN /\ localHead' = [localHead EXCEPT ![p] = nextCommit]
               /\ localTree' = [localTree EXCEPT ![p] = staged[p]]
               /\ nextCommit' = nextCommit + 1
               /\ Goto(p, "rev_parse")
               /\ UNCHANGED exc
          ELSE /\ RaiseInTry(p, GitError(o, Cmd(
                     <<"commit", "-m", "Initial commit:", pub[p].brief>>)))
               /\ UNCHANGED <<localHead, localTree, nextCommit>>
    /\ UNCHANGED <<req, caller, trace, files, response, pub, temp_dir,
                   workTree, staged, origin, existed, commit_sha, pubResult,
                   lastStatus, statuses, pagesReturn, payload, attempt, outcomes, posted,
                   waits, notifyResult, tmpdirs, gitGlobal, repos,
                   remoteHead, lastPusher, remoteTree, pagesOn, reqCount, GITHUB_TOKEN,
                   GITHUB_USERNAME, genVars>>

\* github_manager.py:91 and 176-187  get_commit_sha
RevParse(p) ==
    /\ pc[p] = "rev_parse"
    /\ Step(p, "rev_parse")
    /\ \E o \in GitOutcomes :
          IF o = "ok"
          THEN /\ commit_sha' = [commit_sha EXCEPT ![p] =
                     ShortSha(Sha(localHead[p]))]
               /\ Goto(p, "gh_auth")
               /\ UNCHANGED exc
          ELSE /\ RaiseInTry(p, GitError(o, Cmd(<<"rev-parse", "HEAD">>)))
               /\ UNCHANGED commit_sha
    /\ UNCHANGED <<req, caller, trace, files, response, pub, temp_dir,
                   workTree, staged, localHead, localTree, origin, existed,
                   pubResult, lastStatus, statuses, pagesReturn, payload, attempt,
                   outcomes, posted, waits, notifyResult, tmpdirs,
                   gitGlobal, repos, remoteHead, lastPusher, remoteTree, pagesOn,
                   nextCommit, reqCount, GITHUB_TOKEN, GITHUB_USERNAME, genVars>>

\* github_manager.py:195-201  Github(token).get_user(); user.login
GhAuth(p) ==
    /\ pc[p] = "gh_auth"
    /\ Step(p, "auth")
    /\ \/ Goto(p, "gh_get_repo") /\ UNCHANGED exc
       \/ RaiseInTry(p, <<"401 Bad credentials">>)
    /\ UNCHANGED <<req, caller, trace, files, response, pub, temp_dir,
                   workTree, staged, localHead, localTree, origin, existed,
                   commit_sha, pubResult, lastStatus, statuses, pagesReturn,
                   payload, attempt, outcomes, posted, waits, notifyResult, tmpdirs,
                   gitGlobal, repos, remoteHead, lastPusher, remoteTree,
                   pagesOn, nextCommit, reqCount, GITHUB_TOKEN,
                   GITHUB_USERNAME, genVars>>

\* github_manager.py:203-210  user.get_repo(repo_name); any exception means
\* "does not exist" to the code
GhGetRepo(p) ==
    /\ pc[p] = "gh_get_repo"
    /\ Step(p, "get_repo")
    /\ existed' = [existed EXCEPT ![p] = pub[p].task \in repos]
    /\ \/ /\ RepoFound(repos, pub[p].task)
          /\ Goto(p, "remote_add")
       \/ /\ ~RepoFound(repos, pub[p].task)
          /\ Goto(p, "gh_create_repo")
       \/ /\ pub[p].task \in repos
          /\ Goto(p, "gh_create_repo")
    /\ UNCHANGED <<req, caller, trace, files, exc, response, pub, temp_dir,
                   workTree, staged, localHead, localTree, origin,
                   commit_sha, pubResult, lastStatus, statuses, pagesReturn, payload,
                   attempt, outcomes, posted, waits, notifyResult, tmpdirs,
                   gitGlobal, repos, remoteHead, lastPusher, remoteTree, pagesOn,
                   nextCommit, reqCount, GITHUB_TOKEN, GITHUB_USERNAME, genVars>>

\* github_manager.py:211-218  user.create_repo(...); the service refuses a
\* name that is taken
GhCreateRepo(p) ==
    /\ pc[p] = "gh_create_repo"
    /\ Step(p, "create_repo")
    /\ IF pub[p].task \in repos
       THEN /\ RaiseInTry(p, <<"422 name already exists on this account">>)
            /\ UNCHANGED <<repos, remoteHead, lastPusher, remoteTree, pagesOn>>
       ELSE \/ /\ repos' = repos \cup {pub[p].task}
               /\ remoteHead' = [remoteHead EXCEPT ![pub[p].task] = 0]
               /\ lastPusher' = [lastPusher EXCEPT ![pub[p].task] = 0]
               /\ remoteTree' = [remoteTree EXCEPT ![pub[p].task] = EmptyFiles]
               /\ pagesOn' = [pagesOn EXCEPT ![pub[p].task] = FALSE]
               /\ Goto(p, "remote_add")
               /\ UNCHANGED exc
            \/ /\ RaiseInTry(p, <<"403 Forbidden">>)
               /\ UNCHANGED <<repos, remoteHead, lastPusher, remoteTree, pagesOn>>
    /\ UNCHANGED <<req, caller, trace, files, response, pub, temp_dir,
                   workTree, staged, localHead, localTree, origin, existed,
                   commit_sha, pubResult, lastStatus, statuses, pagesReturn, payload,
                   attempt, outcomes, posted, waits, notifyResult, tmpdirs,
                   gitGlobal, nextCommit, reqCount, GITHUB_TOKEN,
                   GITHUB_USERNAME, genVars>>

\* github_manager.py:223-230  git remote add origin <url>; a failure is
\* swallowed and set-url is tried
RemoteAdd(p) ==
    /\ pc[p] = "remote_add"
    /\ Step(p, "remote_add")
    /\ \E o \in GitOutcomes :
          IF o = "ok"
          THEN /\ origin' = [origin EXCEPT ![p] = RemoteOf(p)]
               /\ Goto(p, "branch_main")
          ELSE /\ Goto(p, "remote_set_url")
               /\ UNCHANGED origin
    /\ UNCHANGED <<req, caller, trace, files, exc, response, pub, temp_dir,
                   workTree, staged, localHead, localTree, existed,
                   commit_sha, pubResult, lastStatus, statuses, pagesReturn, payload,
                   attempt, outcomes, posted, waits, notifyResult, tmpdirs,
                   gitGlobal, repos, remoteHead, lastPusher, remoteTree, pagesOn,
                   nextCommit, reqCount, GITHUB_TOKEN, GITHUB_USERNAME, genVars>>

\* github_manager.py:231  git remote set-url origin <url>
RemoteSetUrl(p) ==
    /\ pc[p] = "remote_set_url"
    /\ Step(p, "remote_set_url")
    /\ \E o \in GitOutcomes :
          IF o = "ok"
          THEN /\ origin' = [origin EXCEPT ![p] = RemoteOf(p)]
               /\ Goto(p, "branch_main")
               /\ UNCHANGED exc
          ELSE /\ RaiseInTry(p, GitError(o, Cmd(
                     <<"remote", "set-url", "origin">> \o RemoteOf(p))))
               /\ UNCHANGED origin
    /\ UNCHANGED <<req, caller, trace, files, response, pub, temp_dir,
                   workTree, staged, localHead, localTree, existed,
                   commit_sha, pubResult, lastStatus, statuses, pagesReturn,
                   payload, attempt, outcomes, posted, waits, notifyResult, tmpdirs,
                   gitGlobal, repos, remoteHead, lastPusher, remoteTree,
                   pagesOn, nextCommit, reqCount, GITHUB_TOKEN,
                   GITHUB_USERNAME, genVars>>

\* github_manager.py:234  git branch -M main
BranchMain(p) ==
    /\ pc[p] = "branch_main"
    /\ Step(p, "branch_main")
    /\ \E o \in GitOutcomes :
          IF o = "ok"
          THEN Goto(p, "push") /\ UNCHANGED exc
          ELSE RaiseInTry(p, GitError(o, Cmd(<<"branch", "-M", "main">>)))
    /\ UNCHANGED <<req, caller, trace, files, response, pub, temp_dir,
                   workTree, staged, localHead, localTree, origin, existed,
                   commit_sha, pubResult, lastStatus, statuses, pagesReturn, payload,
                   attempt, outcomes, posted, waits, notifyResult, tmpdirs,
                   gitGlobal, repos, remoteHead, lastPusher, remoteTree, pagesOn,
                   nextCommit, reqCount, GITHUB_TOKEN, GITHUB_USERNAME, genVars>>

\* github_manager.py:238  git push -u origin main --force; a push that times
\* out may or may not have been applied by the service
Push(p) ==
    /\ pc[p] = "push"
    /\ Step(p, "push")
    /\ LET t == pub[p].task
           applied ==
               /\ remoteHead' = [remoteHead EXCEPT ![t] = localHead[p]]
               /\ lastPusher' = [lastPusher EXCEPT ![t] = p]
               /\ remoteTree' = [remoteTree EXCEPT ![t] =
                      ForcePush(remoteTree[t], localTree[p])]
           cmd == Cmd(<<"push", "-u", "origin", "main", "--force">>)
       IN  \/ /\ applied
              /\ Goto(p, "pages_post")
              /\ UNCHANGED exc
           \/ /\ applied
              /\ RaiseInTry(p, GitError("timeout", cmd))
           \/ /\ UNCHANGED <<remoteHead, lastPusher, remoteTree>>
              /\ \E o \in {"timeout", "failed"} : RaiseInTry(p, GitError(o, cmd))
    /\ UNCHANGED <<req, caller, trace, files, response, pub, temp_dir,
                   workTree, staged, localHead, localTree, origin, existed,
                   commit_sha, pubResult, lastStatus, statuses, pagesReturn, payload,
                   attempt, outcomes, posted, waits, notifyResult, tmpdirs,
                   gitGlobal, repos, pagesOn, nextCommit, reqCount,
                   GITHUB_TOKEN, GITHUB_USERNAME, genVars>>

\* github_manager.py:260-306  enable_github_pages, the POST: an exception or a
\* status other than 409 ends the function
PagesPost(p) ==
    /\ pc[p] = "pages_post"
    /\ Step(p, "pages_post")
    /\ LET t == pub[p].task
       IN  \/ \E st \in PostStatuses(pagesOn[t]) :
                 /\ statuses' = [statuses EXCEPT ![p] = Append(@, st)]
                 /\ lastStatus' = [lastStatus EXCEPT ![p] = st]
                 /\ pagesOn' = [pagesOn EXCEPT ![t] = @ \/ st = 201]
                 /\ IF NeedsUpdate(st)
                    THEN /\ Goto(p, "pages_put")
                         /\ UNCHANGED pagesReturn
                    ELSE /\ pagesReturn' = [pagesReturn EXCEPT ![p] =
                               IF PagesOk(st) THEN "True" ELSE "False"]
                         /\ Goto(p, AfterPages(IF PagesOk(st) THEN "True" ELSE "False"))
           \/ /\ pagesReturn' = [pagesReturn EXCEPT ![p] = "False"]
              /\ Goto(p, AfterPages("False"))
              /\ UNCHANGED <<statuses, lastStatus, pagesOn>>
    /\ UNCHANGED <<req, caller, trace, files, exc, response, pub, temp_dir,
                   workTree, staged, localHead, localTree, origin, existed,
                   commit_sha, pubResult, payload, attempt, outcomes, posted, waits,
                   notifyResult, tmpdirs, gitGlobal, repos, remoteHead,
                   lastPusher, remoteTree, nextCommit, reqCount,
                   GITHUB_TOKEN, GITHUB_USERNAME, genVars>>

\* github_manager.py:290-306  enable_github_pages, the PUT after a conflict
PagesPut(p) ==
    /\ pc[p] = "pages_put"
    /\ Step(p, "pages_put")
    /\ \/ \E st \in PutStatuses :
             /\ statuses' = [statuses EXCEPT ![p] = Append(@, st)]
             /\ lastStatus' = [lastStatus EXCEPT ![p] = st]
             /\ pagesReturn' = [pagesReturn EXCEPT ![p] =
                   IF PagesOk(st) THEN "True" ELSE "False"]
             /\ Goto(p, AfterPages(IF PagesOk(st) THEN "True" ELSE "False"))
       \/ /\ pagesReturn' = [pagesReturn EXCEPT ![p] = "False"]
          /\ Goto(p, AfterPages("False"))
          /\ UNCHANGED <<statuses, lastStatus>>
    /\ UNCHANGED <<req, caller, trace, files, exc, response, pub, temp_dir,
                   workTree, staged, localHead, localTree, origin, existed,
                   commit_sha, pubResult, payload, attempt, outcomes, posted, waits,
                   notifyResult, tmpdirs, gitGlobal, repos, remoteHead,
                   lastPusher, remoteTree, pagesOn, nextCommit, reqCount,
                   GITHUB_TOKEN, GITHUB_USERNAME, genVars>>

\* github_manager.py:245-253 and 98-101  the value about to be returned
PubResult(p) ==
    /\ pc[p] = "pub_result"
    /\ Step(p, "result")
    /\ pubResult' = [pubResult EXCEPT ![p] =
          [repo_url |-> HtmlUrl(GITHUB_USERNAME, pub[p].task),
           commit_sha |-> commit_sha[p],
           pages_url |-> PagesUrl(GITHUB_USERNAME, pub[p].task)]]
    /\ Goto(p, "pub_finally")
    /\ UNCHANGED <<req, caller, trace, files, exc, response, pub, temp_dir,
                   workTree, staged, localHead, localTree, origin, existed,
                   commit_sha, lastStatus, statuses, pagesReturn, payload,
                   attempt, outcomes, posted, waits, notifyResult, tmpdirs,
                   gitGlobal, repos, remoteHead, lastPusher, remoteTree, pagesOn,
                   nextCommit, reqCount, GITHUB_TOKEN, GITHUB_USERNAME, genVars>>

\* github_manager.py:103-110  finally: remove the scratch directory, then
\* return the result or let the exception go on
PubFinally(p) ==
    /\ pc[p] = "pub_finally"
    /\ IF CleanupRuns(exc[p] # <<>>)
       THEN /\ tmpdirs' = RemoveTree(tmpdirs, temp_dir[p])
            /\ workTree' = [workTree EXCEPT ![p] = EmptyFiles]
            /\ staged' = [staged EXCEPT ![p] = EmptyFiles]
            /\ origin' = [origin EXCEPT ![p] = <<>>]
       ELSE UNCHANGED <<tmpdirs, workTree, staged, origin>>
    /\ Step(p, "cleanup")
    /\ Goto(p, "pub_done")
    /\ UNCHANGED <<req, caller, trace, files, exc, response, pub, temp_dir,
                   localHead, localTree, existed, commit_sha, pubResult,
                   lastStatus, statuses, pagesReturn, payload, attempt, outcomes, posted,
                   waits, notifyResult, gitGlobal, repos,
                   remoteHead, lastPusher, remoteTree, pagesOn, nextCommit, reqCount,
                   GITHUB_TOKEN, GITHUB_USERNAME, genVars>>

(***************************************************************************)
(* create_and_deploy_repo called on its own, with any arguments            *)
(***************************************************************************)
FileSets ==
    {EmptyFiles} \cup {GeneratedFiles(h, a) : h \in Responses, a \in SUBSET AttNames}

\* a caller other than handle_task calls create_and_deploy_repo
DirectCall(p) ==
    /\ pc[p] = "idle"
    /\ reqCount < MaxRequests
    /\ reqCount' = reqCount + 1
    /\ \E t \in Tasks, fs \in FileSets, br \in Briefs :
          pub' = [pub EXCEPT ![p] = [task |-> t, files |-> fs, brief |-> br]]
    /\ caller' = [caller EXCEPT ![p] = "direct"]
    /\ Goto(p, "pub_validate")
    /\ UNCHANGED <<req, trace, files, exc, response, temp_dir, workTree,
                   staged, localHead, localTree, origin, existed, commit_sha,
                   pubResult, pubTrace, lastStatus, statuses, pagesReturn, payload,
                   attempt, outcomes, posted, waits, notifyResult, tmpdirs,
                   gitGlobal, repos, remoteHead, lastPusher, remoteTree, pagesOn,
                   nextCommit, GITHUB_TOKEN, GITHUB_USERNAME, genVars>>

\* the direct caller has the result or the exception and drops them
DirectReturn(p) ==
    /\ pc[p] = "pub_done"
    /\ caller[p] = "direct"
    /\ Goto(p, "idle")
    /\ caller' = [caller EXCEPT ![p] = None]
    /\ exc' = [exc EXCEPT ![p] = <<>>]
    /\ pub' = [pub EXCEPT ![p] = NoCall]
    /\ pubResult' = [pubResult EXCEPT ![p] = NoResult]
    /\ FrameGone(p)
    /\ UNCHANGED <<req, trace, files, response, payload, attempt, outcomes, posted,
                   waits, notifyResult, tmpdirs, gitGlobal, repos,
                   remoteHead, lastPusher, remoteTree, pagesOn, nextCommit, reqCount,
                   GITHUB_TOKEN, GITHUB_USERNAME, genVars>>

(***************************************************************************)
(* Specifications                                                          *)
(***************************************************************************)
Publisher(p) ==
    \/ PubValidate(p) \/ PubMkdtemp(p) \/ ConfigureGit(p) \/ GitInit(p)
    \/ GitConfig(p) \/ WriteFiles(p) \/ GitAdd(p) \/ GitCommit(p)
    \/ RevParse(p) \/ GhAuth(p) \/ GhGetRepo(p) \/ GhCreateRepo(p)
    \/ RemoteAdd(p) \/ RemoteSetUrl(p) \/ BranchMain(p) \/ Push(p)
    \/ PagesPost(p) \/ PagesPut(p) \/ PubResult(p) \/ PubFinally(p)

Handler(p) ==
    \/ Receive(p) \/ ParseBody(p) \/ CheckSecret(p) \/ ExtractData(p)
    \/ Generate(p) \/ PublishCall(p) \/ PublishReturn(p) \/ NotifyCall(p)
    \/ NotifyPost(p) \/ NotifyBackoff(p) \/ NotifyReturn(p)
    \/ RespondSuccess(p) \/ RespondError(p) \/ Finish(p)

\* the web service handling one request after another
Next == \E p \in SeqProcs : Handler(p) \/ Publisher(p)

Spec == Init /\ [][Next]_vars

\* the publisher module used on its own
NextPub ==
    \E p \in SeqProcs :
        DirectCall(p) \/ Publisher(p) \/ DirectReturn(p)

SpecPub == InitPub /\ [][NextPub]_vars


(***************************************************************************)
(* Properties                                                              *)
(***************************************************************************)
Has(s, e) == \E i \in 1..Len(s) : s[i] = e

\* every occurrence of a in s is preceded by an occurrence of b
Precedes(s, b, a) ==
    \A i \in 1..Len(s) : s[i] = a => \E j \in 1..(i - 1) : s[j] = b

\* positions of create_and_deploy_repo between mkdtemp and the end of finally
InTry ==
    {"configure_git", "git_init", "git_config_name", "git_config_email",
     "write_files", "git_add", "git_commit", "rev_parse", "gh_auth",
     "gh_get_repo", "gh_create_repo", "remote_add", "remote_set_url",
     "branch_main", "push", "pages_post", "pages_put", "pub_result",
     "pub_finally"}

InNotifier == {"notify_post", "notify_backoff", "notify_returned"}

\* C1: a request whose body is a JSON object but whose 'secret' is not the
\* configured secret never gets past the secret check: it is answered 403
\* and generation, publication and notification are never invoked for it.
C1_SecretMismatchRejected ==
    \A p \in Procs :
        (req[p].body = "object" /\ req[p].secret # MY_SECRET) =>
            /\ pc[p] \in {"parse_body", "check_secret", "responded"}
            /\ pc[p] = "responded" => response[p].code = 403
            /\ trace[p] = <<>>
            /\ pubTrace[p] = <<>>
            /\ outcomes[p] = <<>>
            /\ files[p] = EmptyFiles

C1_Witness ==
    \E p \in Procs :
        /\ pc[p] = "responded"
        /\ req[p].body = "object"
        /\ req[p].secret = "wrong"
        /\ response[p].code = 403

\* C2: within a request publication starts only after generation returned a
\* file set and notification starts only after publication returned; after
\* a failed generation neither is invoked, after a failed publication the
\* notifier is not invoked.
C2_StagesInOrder ==
    \A p \in Procs :
        /\ Precedes(trace[p], "generate_ok", "publish_call")
        /\ Precedes(trace[p], "publish_ok", "notify_call")
        /\ Has(trace[p], "generate_raise") =>
              ~Has(trace[p], "publish_call") /\ ~Has(trace[p], "notify_call")
        /\ Has(trace[p], "publish_raise") => ~Has(trace[p], "notify_call")
        /\ (caller[p] = "handle_task" /\ pc[p] \in InTry \cup {"pub_validate", "pub_mkdtemp"}) =>
              Last(trace[p]) = "publish_call"
        /\ pc[p] \in InNotifier => Last(trace[p]) = "notify_call"

C2_Witness ==
    \E p \in Procs :
        trace[p] = <<"generate_call", "generate_ok", "publish_call",
                     "publish_ok", "notify_call", "notify_returned">>

\* C3: once generation and publication have succeeded the request is
\* answered 200 'success' whatever the notifier returns; the error branch
\* is never entered and no 500 is sent.
C3_NotifierNeverFailsRequest ==
    \A p \in Procs :
        (Has(trace[p], "generate_ok") /\ Has(trace[p], "publish_ok")) =>
            /\ pc[p] # "task_failed"
            /\ response[p].code # 500
            /\ pc[p] = "responded" =>
                  response[p].code = 200 /\ response[p].body.status = "success"

C3_Witness ==
    \E p \in Procs :
        /\ pc[p] = "responded"
        /\ response[p].code = 200
        /\ notifyResult[p] = "False"

\* C4: a request whose generation or publication failed is answered 500
\* with exactly the fields status = 'error' and error = the message; the
\* fields repo_url, pages_url, commit_sha occur only in a 200 response, and
\* a 200 response implies that both stages succeeded.
C4_ErrorResponseShape ==
    \A p \in Procs :
        /\ (pc[p] = "responded" /\
            (Has(trace[p], "generate_raise") \/ Has(trace[p], "publish_raise"))) =>
              /\ response[p].code = 500
              /\ DOMAIN response[p].body = {"status", "error"}
              /\ response[p].body.status = "error"
              /\ response[p].body.error = exc[p]
              /\ exc[p] # <<>>
        /\ ({"repo_url", "pages_url", "commit_sha"} \cap DOMAIN response[p].body # {}) =>
              response[p].code = 200
        /\ response[p].code = 200 =>
              Has(trace[p], "generate_ok") /\ Has(trace[p], "publish_ok")

C4_Witness ==
    \E p \in Procs :
        /\ pc[p] = "responded"
        /\ Has(trace[p], "publish_raise")
        /\ response[p].code = 500

\* C5: the notifier makes no POST after a 200; it returns True exactly when
\* its last POST got 200, and then the waits made are the first k-1 of
\* 1, 2, 4 where k is the number of POSTs (3 failures then a success: 4
\* POSTs, waits 1, 2, 4).
C5_StopsAtFirstSuccess ==
    \A p \in Procs :
        LET n == Len(outcomes[p]) IN
        /\ \A i \in 1..(n - 1) : ~PostSucceeded(outcomes[p][i])
        /\ (n >= 1 /\ PostSucceeded(outcomes[p][n])) =>
              /\ notifyResult[p] = "True"
              /\ n <= 4
              /\ waits[p] = SubSeq(<<1, 2, 4>>, 1, n - 1)
        /\ notifyResult[p] = "True" => (n >= 1 /\ PostSucceeded(outcomes[p][n]))

C5_Witness ==
    \E p \in Procs :
        /\ notifyResult[p] = "True"
        /\ Len(outcomes[p]) = 4
        /\ waits[p] = <<1, 2, 4>>

\* C6: when every attempt fails the notifier makes exactly 4 POSTs, never
\* a fifth, does not wait after the fourth, returns False, and no exception
\* leaves it.
C6_ExhaustionReturnsFalse ==
    \A p \in Procs :
        /\ Len(outcomes[p]) <= 4
        /\ notifyResult[p] = "False" =>
              /\ Len(outcomes[p]) = 4
              /\ \A i \in 1..4 : ~PostSucceeded(outcomes[p][i])
              /\ Len(waits[p]) = 3
        /\ Len(waits[p]) <= 3
        /\ (pc[p] \in {"notify_returned", "respond_success", "responded"}
            /\ Len(outcomes[p]) = 4 /\ ~PostSucceeded(outcomes[p][4])) =>
              notifyResult[p] = "False"
        /\ pc[p] \in InNotifier => exc[p] = <<>>

C6_Witness ==
    \E p \in Procs :
        /\ pc[p] = "notify_returned"
        /\ notifyResult[p] = "False"
        /\ Len(outcomes[p]) = 4

C8_ScratchDirRemoved ==
    /\ tmpdirs \subseteq {temp_dir[q] : q \in {r \in Procs : pc[r] \in InTry}}
    /\ \A p \in Procs :
          (pc[p] = "pub_done" /\ temp_dir[p] # 0) => temp_dir[p] \notin tmpdirs

C8_Witness ==
    \E p \in Procs :
        /\ pc[p] = "pub_done"
        /\ exc[p] # <<>>
        /\ Has(pubTrace[p], "push")
        /\ temp_dir[p] # 0
        /\ temp_dir[p] \notin tmpdirs

\* C9: with the token or the username not configured, or with an empty
\* file set, create_and_deploy_repo raises without having done anything:
\* no scratch directory, no git command, no call to the hosting service.
C9_FailsFast ==
    \A p \in Procs :
        (pc[p] # "idle" /\
         (Falsy(GITHUB_TOKEN) \/ Falsy(GITHUB_USERNAME) \/ DOMAIN pub[p].files = {})) =>
            /\ pc[p] \in {"pub_validate", "pub_done"}
            /\ pc[p] = "pub_done" => exc[p] # <<>>
            /\ pubTrace[p] = <<>>
            /\ temp_dir[p] = 0
            /\ temp_dir[p] \notin tmpdirs
            /\ workTree[p] = EmptyFiles
            /\ localHead[p] = 0

C9_Witness ==
    \E p \in Procs :
        /\ pc[p] = "pub_done"
        /\ ~Falsy(GITHUB_TOKEN)
        /\ ~Falsy(GITHUB_USERNAME)
        /\ DOMAIN pub[p].files = {}
        /\ exc[p] = <<"No files provided to push to GitHub.">>

Count(s, e) == Cardinality({i \in 1..Len(s) : s[i] = e})

\* C11: once the push has succeeded nothing that happens in
\* enable_github_pages (2xx, any other status, an exception) fails the
\* publication: no exception is in flight from the POST on, and the call
\* returns (repo_url, commit_sha, pages_url).
C11_PagesNeverFatal ==
    \A p \in Procs :
        /\ pc[p] \in {"pages_put", "pub_result"} => exc[p] = <<>>
        /\ (Has(pubTrace[p], "pages_post") /\ pc[p] \in {"pub_finally", "pub_done"}) =>
              /\ exc[p] = <<>>
              /\ pubResult[p] =
                    [repo_url |-> HtmlUrl(GITHUB_USERNAME, pub[p].task),
                     commit_sha |-> commit_sha[p],
                     pages_url |-> PagesUrl(GITHUB_USERNAME, pub[p].task)]
              /\ Len(commit_sha[p]) = 7

C11_Witness ==
    \E p \in Procs :
        /\ pc[p] = "pub_done"
        /\ Has(pubTrace[p], "pages_post")
        /\ pagesReturn[p] = "False"
        /\ lastStatus[p] = 500
        /\ pubResult[p] # NoResult

\* C12: enable_github_pages issues the POST first and once, the PUT at most
\* once, after the POST, and exactly when the POST was answered 409; it
\* returns True exactly when the last response it received has status 200,
\* 201 or 204.
C12_PostThenPutOnConflict ==
    \A p \in Procs :
        /\ Count(pubTrace[p], "pages_post") <= 1
        /\ Count(pubTrace[p], "pages_put") <= 1
        /\ Precedes(pubTrace[p], "pages_post", "pages_put")
        /\ pc[p] = "pages_put" => (statuses[p] = <<409>> /\ pagesReturn[p] = None)
        /\ pagesReturn[p] # None =>
              /\ Count(pubTrace[p], "pages_post") = 1
              /\ Has(pubTrace[p], "pages_put") <=>
                    (Len(statuses[p]) >= 1 /\ statuses[p][1] = 409)
              /\ pagesReturn[p] = "True" <=>
                    (Len(statuses[p]) >= 1 /\ Last(statuses[p]) \in {200, 201, 204})

C12_Witness ==
    \E p \in Procs :
        /\ pagesReturn[p] = "True"
        /\ statuses[p] = <<409, 204>>
        /\ Has(pubTrace[p], "pages_put")

\* C16: within one request generate_app_code is called at most once and
\* create_and_deploy_repo at most once, whatever fails, and the notifier is
\* entered at most once; only the notifier's POST is repeated.
C16_AtMostOncePerRequest ==
    \A p \in Procs :
        /\ Count(trace[p], "generate_call") <= 1
        /\ Count(trace[p], "publish_call") <= 1
        /\ Count(trace[p], "notify_call") <= 1
        /\ Count(trace[p], "generate_raise") + Count(trace[p], "generate_ok") <= 1
        /\ Count(trace[p], "publish_raise") + Count(trace[p], "publish_ok") <= 1
        /\ Has(trace[p], "generate_raise") => ~Has(trace[p], "publish_call")
        /\ Has(trace[p], "publish_raise") => ~Has(trace[p], "notify_call")
        /\ Len(outcomes[p]) <= max_retries

C16_Witness ==
    \E p \in Procs :
        /\ Len(outcomes[p]) >= 2
        /\ Count(trace[p], "generate_call") = 1
        /\ Count(trace[p], "publish_call") = 1

\* C17: a request with bad or missing inbound fields (no body, an unparseable
\* body, or an authenticated body without 'brief') is answered 400 and never
\* 500.
C17_BadFieldsAnswered400 ==
    \A p \in Procs :
        (/\ pc[p] = "responded"
         /\ \/ req[p].body # "object"
            \/ (SecretOk(req[p].secret) /\ req[p].brief = None)) =>
            response[p].code = 400

\* positions of create_and_deploy_repo after the push has returned
AfterPush == {"pages_post", "pages_put", "pub_result"}

\* C20: the publication steps run in the order init, write files, commit,
\* read commit id, repository lookup/create, set remote, rename branch,
\* force-push, hosting activation; a step failing before hosting activation
\* aborts the call with an exception; the push is attempted only after the
\* commit and the lookup/create succeeded, hosting activation only after a
\* successful push, and a result tuple is returned only if the push
\* succeeded.
C20_StepsInOrderAndFatal ==
    \A p \in Procs :
        (pc[p] \in InTry \cup {"pub_done"}) =>
            LET s == pubTrace[p]
                t == pub[p].task
            IN  /\ Precedes(s, "init", "write_files")
                /\ Precedes(s, "write_files", "commit")
                /\ Precedes(s, "commit", "rev_parse")
                /\ Precedes(s, "rev_parse", "get_repo")
                /\ Precedes(s, "get_repo", "create_repo")
                /\ Precedes(s, "get_repo", "remote_add")
                /\ Precedes(s, "remote_add", "remote_set_url")
                /\ Precedes(s, "remote_add", "branch_main")
                /\ Precedes(s, "branch_main", "push")
                /\ Precedes(s, "push", "pages_post")
                /\ \A e \in {"init", "write_files", "commit", "rev_parse",
                             "get_repo", "create_repo", "remote_add",
                             "remote_set_url", "branch_main", "push"} :
                       Count(s, e) <= 1
                /\ exc[p] # <<>> =>
                       /\ pc[p] \in {"pub_finally", "pub_done"}
                       /\ pubResult[p] = NoResult
                       /\ ~Has(s, "pages_post")
                       /\ ~Has(s, "result")
                /\ Has(s, "push") =>
                       /\ localHead[p] # 0
                       /\ localTree[p] = CommittedTree(pub[p].files)
                       /\ commit_sha[p] = ShortSha(Sha(localHead[p]))
                       /\ t \in repos
                       /\ Has(s, "create_repo") => ~existed[p]
                /\ Has(s, "pages_post") =>
                       /\ remoteHead[t] = localHead[p]
                       /\ remoteTree[t] = localTree[p]
                       /\ lastPusher[t] = p
                /\ pc[p] \in AfterPush => Has(s, "pages_post") \/ pc[p] = "pages_post"
                /\ pubResult[p] # NoResult =>
                       /\ Has(s, "pages_post")
                       /\ exc[p] = <<>>

C20_Witness ==
    \E p \in Procs :
        /\ pc[p] = "pub_done"
        /\ Has(pubTrace[p], "push")
        /\ ~Has(pubTrace[p], "pages_post")
        /\ exc[p] # <<>>
        /\ pubResult[p] = NoResult

(***************************************************************************)
(* Text.  A Python str is a sequence of one-character strings; indexes in  *)
(* the operators below are Python's (from 0, -1 for "not found").          *)
(***************************************************************************)
\* the base64 alphabet: value v is written B64Chars[v + 1]
B64Chars ==
    <<"A", "B", "C", "D", "E", "F", "G", "H", "I", "J", "K", "L", "M",
      "N", "O", "P", "Q", "R", "S", "T", "U", "V", "W", "X", "Y", "Z",
      "a", "b", "c", "d", "e", "f", "g", "h", "i", "j", "k", "l", "m",
      "n", "o", "p", "q", "r", "s", "t", "u", "v", "w", "x", "y", "z",
      "0", "1", "2", "3", "4", "5", "6", "7", "8", "9", "+", "/">>

\* the character U+0060 (grave accent), which a TLA+ string cannot hold
Tick == "U+0060"

\* chr(c) for the printable ASCII codes: chr(c) = AsciiChars[c - 31]
AsciiChars ==
    <<" ", "!", "\"", "#", "$", "%", "&", "'", "(", ")", "*", "+", ",",
      "-", ".", "/", "0", "1", "2", "3", "4", "5", "6", "7", "8", "9",
      ":", ";", "<", "=", ">", "?", "@", "A", "B", "C", "D", "E", "F",
      "G", "H", "I", "J", "K", "L", "M", "N", "O", "P", "Q", "R", "S",
      "T", "U", "V", "W", "X", "Y", "Z", "[", "\\", "]", "^", "_", Tick,
      "a", "b", "c", "d", "e", "f", "g", "h", "i", "j", "k", "l", "m",
      "n", "o", "p", "q", "r", "s", "t", "u", "v", "w", "x", "y", "z",
      "{", "|", "}", "~">>

Whitespace == {" ", "\n", "\t"}

MinOf(S) == CHOOSE x \in S : \A y \in S : x <= y

\* s[i:i + len(sub)] == sub, for a Python index i
MatchesAt(s, sub, i) ==
    /\ i >= 0
    /\ i + Len(sub) <= Len(s)
    /\ \A k \in 1..Len(sub) : s[i + k] = sub[k]

\* s.find(sub, start)
Find(s, sub, start) ==
    LET hits == {i \in start..Len(s) : MatchesAt(s, sub, i)}
    IN  IF hits = {} THEN -1 ELSE MinOf(hits)

\* sub in s
Contains(s, sub) == Find(s, sub, 0) # -1

\* s.startswith(sub)
StartsWith(s, sub) == MatchesAt(s, sub, 0)

\* the position a slice bound i stands for in a str of length n
SliceBound(i, n) ==
    IF i < 0 THEN (IF i + n < 0 THEN 0 ELSE i + n)
    ELSE (IF i > n THEN n ELSE i)

\* s[a:b]
Slice(s, a, b) ==
    SubSeq(s, SliceBound(a, Len(s)) + 1, SliceBound(b, Len(s)))

\* s.strip()
Strip(s) ==
    LET kept == {i \in 1..Len(s) : s[i] \notin Whitespace}
    IN  IF kept = {} THEN <<>>
        ELSE SubSeq(s, MinOf(kept), CHOOSE x \in kept : \A y \in kept : y <= x)

\* c.lower() for one character
LowerChar(c) ==
    IF \E i \in 1..26 : B64Chars[i] = c
    THEN B64Chars[(CHOOSE i \in 1..26 : B64Chars[i] = c) + 26]
    ELSE c

\* s.lower()
Lower(s) == [i \in 1..Len(s) |-> LowerChar(s[i])]

(***************************************************************************)
(* process_attachments (llm_generator.py:65-100)                           *)
(***************************************************************************)
\* the value of a base64 character, -1 for a character outside the alphabet
B64Value(c) ==
    IF \E v \in 1..Len(B64Chars) : B64Chars[v] = c
    THEN (CHOOSE v \in 1..Len(B64Chars) : B64Chars[v] = c) - 1
    ELSE -1

\* base64.b64decode(s) with validate=False: characters outside the alphabet
\* are discarded, a complete pad sequence ends the input, and data that does
\* not end on a group of four is an error
RECURSIVE A2bBase64(_, _, _, _, _, _)
A2bBase64(s, i, quad_pos, pads, leftchar, out) ==
    IF i > Len(s)
    THEN [error |-> IF quad_pos = 0 THEN "" ELSE "binascii.Error", bytes |-> out]
    ELSE IF s[i] = "="
    THEN IF quad_pos >= 2 /\ quad_pos + pads + 1 >= 4
         THEN [error |-> "", bytes |-> out]
         ELSE A2bBase64(s, i + 1, quad_pos,
                        IF quad_pos >= 2 THEN pads + 1 ELSE pads, leftchar, out)
    ELSE IF B64Value(s[i]) = -1
    THEN A2bBase64(s, i + 1, quad_pos, pads, leftchar, out)
    ELSE LET v == B64Value(s[i])
         IN  CASE quad_pos = 0 -> A2bBase64(s, i + 1, 1, 0, v, out)
               [] quad_pos = 1 ->
                    A2bBase64(s, i + 1, 2, 0, v % 16,
                              Append(out, leftchar * 4 + v \div 16))
               [] quad_pos = 2 ->
                    A2bBase64(s, i + 1, 3, 0, v % 4,
                              Append(out, leftchar * 16 + v \div 4))
               [] OTHER ->
                    A2bBase64(s, i + 1, 0, 0, 0,
                              Append(out, leftchar * 64 + v))

B64Decode(s) == A2bBase64(s, 1, 0, 0, 0, <<>>)

\* chr(b) for the text bytes
Chr(b) ==
    CASE b \in 32..126 -> AsciiChars[b - 31]
      [] b = 10 -> "\n"
      [] OTHER -> "\t"

\* bytes.decode('utf-8') for payloads holding no multi-byte sequence: a byte
\* above 0x7F is then an invalid start byte
Utf8Decode(bytes) ==
    IF \E i \in 1..Len(bytes) : bytes[i] > 127
    THEN [error |-> "UnicodeDecodeError", content |-> <<>>]
    ELSE [error |-> "", content |-> [i \in 1..Len(bytes) |-> Chr(bytes[i])]]

\* llm_generator.py:81  not data_uri or not data_uri.startswith('data:');
\* an absent url (None) and an empty one are both falsy, both are <<>> here
Skipped(data_uri) ==
    data_uri = <<>> \/ ~StartsWith(data_uri, <<"d", "a", "t", "a", ":">>)

\* llm_generator.py:86-92  the body of the try block
DecodeDataUri(data_uri) ==
    LET comma == Find(data_uri, <<",">>, 0)
        header == Slice(data_uri, 0, comma)
        encoded == Slice(data_uri, comma + 1, Len(data_uri))
    IN  IF comma = -1
        THEN [error |-> "ValueError", content |-> <<>>]
        ELSE IF Contains(header, <<"b", "a", "s", "e", "6", "4">>)
        THEN LET raw == B64Decode(encoded)
             IN  IF raw.error # ""
                 THEN [error |-> raw.error, content |-> <<>>]
                 ELSE Utf8Decode(raw.bytes)
        ELSE [error |-> "", content |-> encoded]

\* llm_generator.py:97  except Exception catches every error of the try block
CaughtBinasciiOnly(error) == error = "binascii.Error"
Caught(error) == TRUE

(***************************************************************************)
(* parse_generated_code (llm_generator.py:141-185)                         *)
(***************************************************************************)
Fence == <<Tick, Tick, Tick>>
FenceHtml == <<Tick, Tick, Tick, "h", "t", "m", "l">>
OpenTag == <<"<", "h", "t", "m", "l">>
CloseTag == <<"<", "/", "h", "t", "m", "l", ">">>

\* llm_generator.py:156-168  the interior of the first fenced block, the
\* text itself when there is none
StripFenceFromZero(text) ==
    LET code == Strip(text)
    IN  IF Contains(code, FenceHtml)
        THEN LET start == Find(code, FenceHtml, 0) + 7
                 end == Find(code, Fence, 0)
             IN  Strip(Slice(code, start, end))
        ELSE IF Contains(code, Fence)
        THEN LET start == Find(code, Fence, 0) + 3
                 end == Find(code, Fence, 0)
             IN  Strip(Slice(code, start, end))
        ELSE code
StripFence(text) ==
    LET code == Strip(text)
    IN  IF Contains(code, FenceHtml)
        THEN LET start == Find(code, FenceHtml, 0) + 7
                 end == Find(code, Fence, start)
             IN  Strip(Slice(code, start, end))
        ELSE IF Contains(code, Fence)
        THEN LET start == Find(code, Fence, 0) + 3
                 end == Find(code, Fence, start)
             IN  Strip(Slice(code, start, end))
        ELSE code

\* llm_generator.py:171-176
ExtractHtml(code) ==
    IF Contains(Lower(code), OpenTag)
    THEN LET start == Find(Lower(code), OpenTag, 0)
             end == Find(Lower(code), CloseTag, 0) + 7
         IN  IF start # -1 /\ end > start
             THEN Slice(code, start, end)
             ELSE code
    ELSE code

\* llm_generator.py:153, 179-185  index.html first, then every attachment
parse_generated_code_IndexLast(code, atts) ==
    [n \in {"index.html"} \cup DOMAIN atts |->
        IF n = "index.html" THEN ExtractHtml(StripFence(code)) ELSE atts[n]]
parse_generated_code(code, atts) ==
    [n \in {"index.html"} \cup DOMAIN atts |->
        IF n \in DOMAIN atts THEN atts[n] ELSE ExtractHtml(StripFence(code))]

\* llm_generator.py:188-240  generate_mit_license, generate_readme
MitLicense == <<"M", "I", "T", " ", "L", "i", "c", "e", "n", "s", "e">>
Readme == <<"#", " ", "W", "e", "b", " ", "A", "p", "p", "l", "i", "c", "a", "t", "i", "o", "n">>

\* llm_generator.py:55-56
MandatoryFilesNoLicense(fs) == Put(fs, "README.md", Readme)
MandatoryFiles(fs) == Put(Put(fs, "LICENSE", MitLicense), "README.md", Readme)

(***************************************************************************)
(* Inputs of generate_app_code                                             *)
(***************************************************************************)
MaxAttachments == 2

AttachmentNames == {"a.txt", "index.html", "LICENSE", "README.md"}

UrlPlain == <<"d", "a", "t", "a", ":", "t", "e", "x", "t", "/", "p", "l", "a", "i", "n", ",", "h", "i">>
UrlBase64 == <<"d", "a", "t", "a", ":", "t", "e", "x", "t", "/", "p", "l", "a", "i", "n", ";", "b", "a", "s", "e", "6", "4", ",", "a", "G", "V", "s", "b", "G", "8", "=">>
UrlBadPadding == <<"d", "a", "t", "a", ":", ";", "b", "a", "s", "e", "6", "4", ",", "a", "G", "V", "s", "b", "G", "8">>
UrlBadUtf8 == <<"d", "a", "t", "a", ":", ";", "b", "a", "s", "e", "6", "4", ",", "/", "w", "=", "=">>
UrlNoComma == <<"d", "a", "t", "a", ":", "t", "e", "x", "t", "/", "p", "l", "a", "i", "n">>
UrlRemote == <<"h", "t", "t", "p", ":", "/", "/", "x", "/", "a", ".", "t", "x", "t">>

\* <<>> is an entry without 'url'
DataUris ==
    {<<>>, UrlRemote, UrlPlain, UrlBase64, UrlBadPadding, UrlBadUtf8, UrlNoComma}

\* what the urls that can be decoded stand for
DecodedText ==
    [u \in {UrlPlain, UrlBase64} |->
        IF u = UrlPlain THEN <<"h", "i">> ELSE <<"h", "e", "l", "l", "o">>]

AttachmentEntries == [name : AttachmentNames, url : DataUris]

AttachmentLists ==
    UNION {[1..n -> AttachmentEntries] : n \in 0..MaxAttachments}

\* a model response: text, an opening fence, a document, a closing fence,
\* text; any part may be missing
Shapes ==
    [before : {<<>>, <<"Y", "o", "u", "r", " ", "<", "h", "t", "m", "l", ">", " ", "p", "a", "g", "e", ":", "\n">>},
     open : {<<>>, Fence, FenceHtml},
     pad : {<<>>, <<"\n">>},
     doc_open : {<<>>, <<"<", "h", "t", "m", "l", ">">>, <<"<", "H", "T", "M", "L", " ", "l", "a", "n", "g", "=", "e", "n", ">">>},
     inner : {<<>>, <<"<", "p", ">", "h", "i", "<", "/", "p", ">">>},
     doc_close : {<<>>, <<"<", "/", "h", "t", "m", "l", ">">>, <<"<", "/", "H", "T", "M", "L", ">">>},
     close : {<<>>, Fence},
     after : {<<>>, <<"\n", "D", "o", "n", "e", " ", "<", "/", "h", "t", "m", "l", ">", ".">>, <<"\n", "U", "s", "e", " ", Tick, Tick, Tick, "h", "t", "m", "l">>}]

Document(sh) == sh.doc_open \o sh.inner \o sh.doc_close

Assemble(sh) ==
    sh.before \o sh.open \o sh.pad \o Document(sh) \o sh.pad \o sh.close
        \o sh.after

FencedDocument ==
    [before |-> <<>>, open |-> FenceHtml, pad |-> <<"\n">>,
     doc_open |-> <<"<", "h", "t", "m", "l", ">">>, inner |-> <<"<", "p", ">", "h", "i", "<", "/", "p", ">">>,
     doc_close |-> <<"<", "/", "h", "t", "m", "l", ">">>, close |-> Fence, after |-> <<>>]

\* every response with no attachment, every attachment list with one response
GenInputs ==
    {<<<<>>, sh>> : sh \in Shapes}
        \cup {<<a, FencedDocument>> : a \in AttachmentLists}

(***************************************************************************)
(* generate_app_code called on its own (llm_generator.py:15-62)            *)
(***************************************************************************)
procVars == <<pc, exc, taskVars, gitVars, notifyVars, hostVars, hubVars,
              envVars, reqCount>>

InitGen ==
    /\ InitCommon
    /\ GITHUB_TOKEN = TokenValue
    /\ GITHUB_USERNAME = UserValue
    /\ \E in \in GenInputs :
          /\ attachments = in[1]
          /\ shape = in[2]
          /\ generated_code = Assemble(in[2])
    /\ processed = EmptyFiles
    /\ gen_files = EmptyFiles
    /\ gen_pc = "process_attachments"
    /\ att_i = 1
    /\ gen_exc = <<>>

\* llm_generator.py:77-98  one turn of the for-loop
GenProcessAttachment ==
    /\ gen_pc = "process_attachments"
    /\ att_i <= Len(attachments)
    /\ LET name == attachments[att_i].name
           data_uri == attachments[att_i].url
           r == DecodeDataUri(data_uri)
       IN  IF Skipped(data_uri)
           THEN /\ att_i' = att_i + 1
                /\ UNCHANGED <<processed, gen_pc, gen_exc>>
           ELSE IF r.error = ""
           THEN /\ processed' = Put(processed, name, r.content)
                /\ att_i' = att_i + 1
                /\ UNCHANGED <<gen_pc, gen_exc>>
           ELSE IF Caught(r.error)
           THEN /\ att_i' = att_i + 1
                /\ UNCHANGED <<processed, gen_pc, gen_exc>>
           ELSE /\ gen_exc' = <<"process_attachments", r.error>>
                /\ gen_pc' = "raised"
                /\ UNCHANGED <<processed, att_i>>
    /\ UNCHANGED <<attachments, generated_code, gen_files, shape, procVars>>

\* llm_generator.py:100, 39-47  the loop is over; the model answers with
\* generated_code or the call raises
GenModelCall ==
    /\ gen_pc = "process_attachments"
    /\ att_i > Len(attachments)
    /\ \/ /\ gen_pc' = "parse"
          /\ UNCHANGED gen_exc
       \/ /\ gen_pc' = "raised"
          /\ gen_exc' = <<"generate_content", "Exception">>
    /\ UNCHANGED <<attachments, generated_code, processed, gen_files, att_i,
                   shape, procVars>>

\* llm_generator.py:52
GenParse ==
    /\ gen_pc = "parse"
    /\ gen_files' = parse_generated_code(generated_code, processed)
    /\ gen_pc' = "mandatory"
    /\ UNCHANGED <<attachments, generated_code, processed, att_i, gen_exc,
                   shape, procVars>>

\* llm_generator.py:55-58
GenMandatory ==
    /\ gen_pc = "mandatory"
    /\ gen_files' = MandatoryFiles(gen_files)
    /\ gen_pc' = "returned"
    /\ UNCHANGED <<attachments, generated_code, processed, att_i, gen_exc,
                   shape, procVars>>

NextGen ==
    \/ GenProcessAttachment
    \/ GenModelCall
    \/ GenParse
    \/ GenMandatory

SpecGen == InitGen /\ [][NextGen]_vars

\* names of the entries of a list that can be decoded
DecodedNames(atts) ==
    {atts[j].name : j \in {k \in 1..Len(atts) : atts[k].url \in DOMAIN DecodedText}}

\* C13: a file set returned by generate_app_code has the keys index.html,
\* LICENSE and README.md, and its key set is these three together with the
\* names of the attachments that were decoded; with no attachments it has
\* exactly three entries.
C13_FileSetKeys ==
    /\ gen_pc = "returned" =>
          /\ gen_exc = <<>>
          /\ DOMAIN gen_files =
                {"index.html", "LICENSE", "README.md"} \cup DecodedNames(attachments)
          /\ gen_files["LICENSE"] = MitLicense
          /\ gen_files["README.md"] = Readme
          /\ attachments = <<>> => Cardinality(DOMAIN gen_files) = 3
    /\ gen_pc = "raised" => gen_files = EmptyFiles

C13_Witness ==
    /\ gen_pc = "returned"
    /\ Len(attachments) = 2
    /\ attachments[1] = [name |-> "a.txt", url |-> UrlBase64]
    /\ attachments[2] = [name |-> "index.html", url |-> UrlNoComma]
    /\ DOMAIN gen_files = {"index.html", "LICENSE", "README.md", "a.txt"}

\* the last entry named n, among the first k, that can be decoded
LastDecoded(atts, k, n) ==
    CHOOSE j \in 1..k :
        /\ atts[j].name = n
        /\ atts[j].url \in DOMAIN DecodedText
        /\ \A i \in (j + 1)..k :
              ~(atts[i].name = n /\ atts[i].url \in DOMAIN DecodedText)

\* C14: process_attachments never raises; an entry without a data: url is
\* skipped, an entry whose decoding fails is dropped, and the entries after
\* it are still decoded, so the mapping holds exactly the entries that decode.
C14_AttachmentsNeverRaise ==
    /\ gen_exc # <<>> => gen_exc[1] # "process_attachments"
    /\ gen_pc \in {"parse", "mandatory", "returned"} => att_i = Len(attachments) + 1
    /\ gen_pc # "idle" =>
          /\ DOMAIN processed = DecodedNames(SubSeq(attachments, 1, att_i - 1))
          /\ \A n \in DOMAIN processed :
                processed[n] =
                    DecodedText[attachments[LastDecoded(attachments, att_i - 1, n)].url]

C14_Witness ==
    /\ gen_pc = "parse"
    /\ Len(attachments) = 2
    /\ attachments[1] = [name |-> "index.html", url |-> UrlBadPadding]
    /\ attachments[2] = [name |-> "a.txt", url |-> UrlBase64]
    /\ DOMAIN processed = {"a.txt"}
    /\ processed["a.txt"] = <<"h", "e", "l", "l", "o">>

\* a response that wraps a document in one fenced block, with text before
\* and after that holds no fence marker
Wrapped(sh) ==
    /\ sh.open # <<>>
    /\ sh.close # <<>>
    /\ sh.doc_open # <<>>
    /\ sh.doc_close # <<>>
    /\ ~Contains(sh.before, Fence)
    /\ ~Contains(sh.after, Fence)

ConcTasks == {"t1"}

\* the two publications carry file sets that differ in content and in names
ConcFiles(p) ==
    IF p = 1 THEN GeneratedFiles("htmlA", {})
    ELSE GeneratedFiles("htmlB", {"a.txt"})

\* app.py:136  a thread reaches its call of create_and_deploy_repo
ConcCall(p) ==
    /\ pc[p] = "idle"
    /\ \E t \in ConcTasks :
          pub' = [pub EXCEPT ![p] =
                    [task |-> t, files |-> ConcFiles(p),
                     brief |-> "Build a counter app"]]
    /\ caller' = [caller EXCEPT ![p] = "direct"]
    /\ Goto(p, "pub_validate")
    /\ UNCHANGED <<req, trace, files, exc, response, gitVars, notifyVars,
                   hostVars, hubVars, envVars, reqCount, genVars>>

\* each thread makes one call and stops when the call is over
NextConc == \E p \in Procs : ConcCall(p) \/ Publisher(p)

SpecConc == Init /\ [][NextConc]_vars

\* the publication of thread p is between mkdtemp and the end of finally
Running(p) == pc[p] \in InTry

Created(p) ==
    Has(pubTrace[p], "create_repo") /\ Has(pubTrace[p], "remote_add")

FixedNames == {"index.html", "LICENSE", "README.md"}

\* C21: names are written in the order deliverable, attachments, LICENSE,
\* README.md and the last write wins: a decoded attachment named index.html
\* replaces the generated deliverable, one named LICENSE or README.md is
\* replaced by the synthesized document, and the file set has one entry per
\* distinct name.
C21_LastWriteWins ==
    gen_pc = "returned" =>
        LET decoded == DecodedNames(attachments)
            text(n) ==
                DecodedText[attachments[LastDecoded(attachments,
                                                    Len(attachments), n)].url]
        IN  /\ DOMAIN gen_files = FixedNames \cup decoded
            /\ Cardinality(DOMAIN gen_files) =
                  3 + Cardinality(decoded \ FixedNames)
            /\ "index.html" \in decoded =>
                  gen_files["index.html"] = text("index.html")
            /\ ("index.html" \notin decoded /\ Wrapped(shape)) =>
                  gen_files["index.html"] = Document(shape)
            /\ gen_files["LICENSE"] = MitLicense
            /\ gen_files["README.md"] = Readme
            /\ \A n \in decoded \ FixedNames : gen_files[n] = text(n)

C21_Witness ==
    /\ gen_pc = "returned"
    /\ Len(attachments) = 2
    /\ attachments[1] = [name |-> "index.html", url |-> UrlPlain]
    /\ attachments[2] = [name |-> "LICENSE", url |-> UrlBase64]
    /\ gen_files["index.html"] = <<"h", "i">>
    /\ gen_files["LICENSE"] = MitLicense
    /\ Cardinality(DOMAIN gen_files) = 3

\* C22: every POST of the notifier carries the request's own email, task,
\* round and nonce and the repo_url, commit_sha and pages_url the publisher
\* returned; the body is the same on every attempt, and the 200 response
\* of handle_task carries the same three values.
C22_PayloadEchoesRequest ==
    \A p \in Procs :
        /\ Len(posted[p]) = Len(outcomes[p])
        /\ \A i \in 1..Len(posted[p]) :
              /\ posted[p][i].email = req[p].email
              /\ posted[p][i].task = req[p].task
              /\ posted[p][i].round = req[p].round
              /\ posted[p][i].nonce = req[p].nonce
              /\ posted[p][i].repo_url = pubResult[p].repo_url
              /\ posted[p][i].commit_sha = pubResult[p].commit_sha
              /\ posted[p][i].pages_url = pubResult[p].pages_url
              /\ posted[p][i] = posted[p][1]
              /\ pubResult[p].repo_url = HtmlUrl(GITHUB_USERNAME, req[p].task)
              /\ pubResult[p].pages_url = PagesUrl(GITHUB_USERNAME, req[p].task)
              /\ Len(pubResult[p].commit_sha) = ShortShaLen
        /\ (pc[p] = "responded" /\ response[p].code = 200) =>
              /\ posted[p] # <<>>
              /\ response[p].body.repo_url = posted[p][1].repo_url
              /\ response[p].body.commit_sha = posted[p][1].commit_sha
              /\ response[p].body.pages_url = posted[p][1].pages_url

C22_Witness ==
    \E p \in Procs :
        /\ pc[p] = "responded"
        /\ response[p].code = 200
        /\ Len(posted[p]) = max_retries
        /\ req[p].nonce = 2
        /\ posted[p][max_retries].nonce = 2
        /\ posted[p][max_retries].task = req[p].task

\* C23: when the text left after fence removal holds an opening <html, in
\* any case, but no closing </html>, index.html is that text unchanged,
\* never a shorter fragment of it.
C23_UnclosedDocumentKept ==
    LET code == StripFence(generated_code)
    IN  (/\ gen_pc \in {"mandatory", "returned"}
         /\ "index.html" \notin DOMAIN processed
         /\ Contains(Lower(code), OpenTag)
         /\ ~Contains(Lower(code), CloseTag)) =>
            gen_files["index.html"] = code

NameTaken == <<"422 name already exists on this account">>

\* C24: when two publications of one task that does not exist yet run
\* concurrently, neither fails because the other one created the repository
\* between its own lookup and its own create call.
C24_NoCreateRace ==
    \A p \in Procs :
        (Has(pubTrace[p], "create_repo") /\ ~existed[p]) => exc[p] # NameTaken

\* C25: the hosting access token never reaches the webhook caller: whatever
\* the publication steps do, a timeout of the git commands that take the
\* token-embedded remote URL included, the error text of the 500 response
\* does not contain the token.
C25_TokenNotInErrorResponse ==
    \A p \in Procs :
        (pc[p] = "responded" /\ response[p].code = 500) =>
            ~Has(response[p].body.error, GITHUB_TOKEN)

====
